---- MODULE Spec2Model ----
(***************************************************************************)
(* A model of run.py: the StockManager (a table SKU -> level driven by     *)
(* textual instructions) and the line loop process_stock_file.             *)
(*                                                                         *)
(* A Python str is modelled as a sequence of one-character strings, so     *)
(* that tokenising, the SKU pattern, isdigit() and int() are computed and  *)
(* not assumed.  The character "sup2" stands for U+00B2 (superscript two), *)
(* a character for which str.isdigit() is True and int() raises ValueError.*)
(***************************************************************************)
EXTENDS Integers, Sequences, FiniteSets, TLC

VARIABLES stock, instruction, cmd_parts, before, outcome, calls, pc, line_number, report,
          arg

vars == <<stock, instruction, cmd_parts, before, outcome, calls, pc, line_number, report,
          arg>>

----------------------------------------------------------------------------
(* Bounds of the model.                                                    *)

\* process_command calls made on one StockManager
MaxCalls == 3
\* argument tokens of one instruction (after the operation and the order reference)
MaxArgs == 4
\* lines of the file read by process_stock_file
MaxLines == 3
\* characters of an argument of validate_sku or validate_amount
MaxStrLen == 5

----------------------------------------------------------------------------
(* Characters.                                                             *)

UpperChars ==
    {"A", "B", "C", "D", "E", "F", "G", "H", "I", "J", "K", "L", "M",
     "N", "O", "P", "Q", "R", "S", "T", "U", "V", "W", "X", "Y", "Z"}

AsciiDigits == {"0", "1", "2", "3", "4", "5", "6", "7", "8", "9"}

\* characters c with c.isdigit() and for which int(c) raises ValueError
NonDecimalDigits == {"sup2"}

\* characters on which str.split() and str.strip() cut
Whitespace == {" ", "\t", "\n"}

DigitValue(c) ==
    CASE c = "0" -> 0 [] c = "1" -> 1 [] c = "2" -> 2 [] c = "3" -> 3
      [] c = "4" -> 4 [] c = "5" -> 5 [] c = "6" -> 6 [] c = "7" -> 7
      [] c = "8" -> 8 [] c = "9" -> 9

----------------------------------------------------------------------------
(* str methods.                                                            *)

\* s.isdigit(): non-empty and every character is a digit character
isdigit(s) ==
    /\ Len(s) > 0
    /\ \A i \in 1..Len(s) : s[i] \in AsciiDigits \cup NonDecimalDigits

\* int(s) succeeds (given s.isdigit()) only on decimal digits
int_parses(s) == \A i \in 1..Len(s) : s[i] \in AsciiDigits

RECURSIVE int(_)
int(s) ==
    IF Len(s) = 0 THEN 0
    ELSE 10 * int(SubSeq(s, 1, Len(s) - 1)) + DigitValue(s[Len(s)])

\* s.split(): maximal runs of non-whitespace characters, in order
RECURSIVE split_from(_, _, _)
split_from(s, i, cur) ==
    IF i > Len(s)
    THEN IF Len(cur) > 0 THEN <<cur>> ELSE <<>>
    ELSE IF s[i] \in Whitespace
         THEN IF Len(cur) > 0
              THEN <<cur>> \o split_from(s, i + 1, <<>>)
              ELSE split_from(s, i + 1, <<>>)
         ELSE split_from(s, i + 1, Append(cur, s[i]))

split(s) == split_from(s, 1, <<>>)

\* s.strip(): s without its leading and trailing whitespace
RECURSIVE lstrip(_)
lstrip(s) ==
    IF Len(s) > 0 /\ Head(s) \in Whitespace THEN lstrip(Tail(s)) ELSE s

RECURSIVE rstrip(_)
rstrip(s) ==
    IF Len(s) > 0 /\ s[Len(s)] \in Whitespace
    THEN rstrip(SubSeq(s, 1, Len(s) - 1))
    ELSE s

strip(s) == rstrip(lstrip(s))

\* parts[start::2] (start counted from 0 as in Python)
slice2(parts, start) ==
    [k \in 1..((IF Len(parts) > start THEN Len(parts) - start + 1 ELSE 0) \div 2)
        |-> parts[start + 2 * k - 1]]

\* zip(xs, ys)
zip(xs, ys) ==
    [k \in 1..(IF Len(xs) < Len(ys) THEN Len(xs) ELSE Len(ys))
        |-> <<xs[k], ys[k]>>]

----------------------------------------------------------------------------
(* Exceptions.  exc is the Python exception class, text the format string  *)
(* of its message and args the values formatted into it.                   *)

NoError == [exc |-> "none", text |-> "", args |-> <<>>]

StockError(text, args) == [exc |-> "StockError", text |-> text, args |-> args]

\* what parts[0] raises on an empty list
IndexError == [exc |-> "IndexError", text |-> "list index out of range", args |-> <<>>]

\* what int(amount) raises on a digit character that is not a decimal
ValueError(amount) ==
    [exc |-> "ValueError", text |-> "invalid literal for int() with base 10: {amount}",
     args |-> <<amount>>]

----------------------------------------------------------------------------
(* StockManager.                                                           *)

\* the bounds of the pattern's repetitions {1,3}
SkuMinRun == 1
SkuMaxRun == 3
\* the largest amount validate_amount accepts
MaxAmount == 999

\* re.match(r"^[A-Z]{1,3}-[0-9]{1,3}$", sku); $ also matches just before a
\* newline that ends the string
sku_pattern_matches(sku) ==
    \E i \in SkuMinRun..SkuMaxRun, j \in SkuMinRun..SkuMaxRun :
        /\ \/ Len(sku) = i + 1 + j
           \/ Len(sku) = i + 1 + j + 1 /\ sku[Len(sku)] = "\n"
        /\ \A k \in 1..i : sku[k] \in UpperChars
        /\ sku[i + 1] = "-"
        /\ \A k \in (i + 2)..(i + 1 + j) : sku[k] \in AsciiDigits

validate_sku(sku) ==
    IF ~ sku_pattern_matches(sku)
    THEN StockError("Invalid SKU format: {sku}", <<sku>>)
    ELSE NoError

\* validate_amount without its upper limit
validate_amount_unbounded(amount) ==
    IF ~ isdigit(amount)
    THEN StockError("Invalid amount format: {amount}", <<amount>>)
    ELSE IF ~ int_parses(amount)
    THEN ValueError(amount)
    ELSE NoError

validate_amount(amount) ==
    IF ~ isdigit(amount)
    THEN StockError("Invalid amount format: {amount}", <<amount>>)
    ELSE IF ~ int_parses(amount)
    THEN ValueError(amount)
    ELSE IF ~ (0 <= int(amount) /\ int(amount) <= MaxAmount)
    THEN StockError("Invalid amount format: {amount}", <<amount>>)
    ELSE NoError

\* the try block shared by the three handlers: validate_sku, then
\* validate_amount unless validate_sku raised
validate_pair(sku, amount) ==
    IF validate_sku(sku) # NoError THEN validate_sku(sku) ELSE validate_amount(amount)

\* self.stock[sku] = level
store(table, sku, level) ==
    [k \in DOMAIN table \cup {sku} |-> IF k = sku THEN level ELSE table[k]]

Result(table, exc) == [stock |-> table, exc |-> exc]

\* process_set_stock that adds the amount to the level already held
RECURSIVE set_stock_loop_adding(_, _, _)
set_stock_loop_adding(table, pairs, k) ==
    IF k > Len(pairs) THEN Result(table, NoError)
    ELSE LET sku == pairs[k][1]
             amount == pairs[k][2]
             v == validate_pair(sku, amount)
         IN  IF v.exc = "StockError" THEN set_stock_loop_adding(table, pairs, k + 1)
             ELSE IF v # NoError THEN Result(table, v)
             ELSE set_stock_loop_adding(
                      store(table, sku,
                            (IF sku \in DOMAIN table THEN table[sku] ELSE 0) + int(amount)),
                      pairs, k + 1)

\* process_set_stock without its call of validate_sku
RECURSIVE set_stock_loop_any_sku(_, _, _)
set_stock_loop_any_sku(table, pairs, k) ==
    IF k > Len(pairs) THEN Result(table, NoError)
    ELSE LET sku == pairs[k][1]
             amount == pairs[k][2]
             v == validate_amount(amount)
         IN  IF v.exc = "StockError" THEN set_stock_loop_any_sku(table, pairs, k + 1)
             ELSE IF v # NoError THEN Result(table, v)
             ELSE set_stock_loop_any_sku(store(table, sku, int(amount)), pairs, k + 1)

\* the for loop of process_set_stock from its k-th pair on
RECURSIVE set_stock_loop(_, _, _)
set_stock_loop(table, pairs, k) ==
    IF k > Len(pairs) THEN Result(table, NoError)
    ELSE LET sku == pairs[k][1]
             amount == pairs[k][2]
             v == validate_pair(sku, amount)
         IN  IF v.exc = "StockError" THEN set_stock_loop(table, pairs, k + 1)
             ELSE IF v # NoError THEN Result(table, v)
             ELSE set_stock_loop(store(table, sku, int(amount)), pairs, k + 1)

\* process_set_stock that reads parts[i], parts[i + 1] for i = 0, 2, ...: the
\* token without partner ends it with an IndexError
process_set_stock_indexed(table, parts) ==
    LET r == set_stock_loop(table, zip(slice2(parts, 0), slice2(parts, 1)), 1)
    IN  IF r.exc = NoError /\ Len(parts) % 2 = 1 THEN Result(r.stock, IndexError) ELSE r

process_set_stock(table, parts) ==
    set_stock_loop(table, zip(slice2(parts, 0), slice2(parts, 1)), 1)

\* process_add_stock that starts an absent SKU at 0 instead of raising
RECURSIVE add_stock_loop_creating(_, _, _)
add_stock_loop_creating(table, pairs, k) ==
    IF k > Len(pairs) THEN Result(table, NoError)
    ELSE LET sku == pairs[k][1]
             amount == pairs[k][2]
             v == validate_pair(sku, amount)
         IN  IF v.exc = "StockError" THEN add_stock_loop_creating(table, pairs, k + 1)
             ELSE IF v # NoError THEN Result(table, v)
             ELSE add_stock_loop_creating(
                      store(table, sku,
                            (IF sku \in DOMAIN table THEN table[sku] ELSE 0) + int(amount)),
                      pairs, k + 1)

\* process_add_stock that skips the pair of an absent SKU instead of raising
RECURSIVE add_stock_loop_skipping(_, _, _)
add_stock_loop_skipping(table, pairs, k) ==
    IF k > Len(pairs) THEN Result(table, NoError)
    ELSE LET sku == pairs[k][1]
             amount == pairs[k][2]
             v == validate_pair(sku, amount)
         IN  IF v.exc = "StockError" THEN add_stock_loop_skipping(table, pairs, k + 1)
             ELSE IF v # NoError THEN Result(table, v)
             ELSE IF sku \notin DOMAIN table
             THEN add_stock_loop_skipping(table, pairs, k + 1)
             ELSE add_stock_loop_skipping(store(table, sku, table[sku] + int(amount)),
                                          pairs, k + 1)

\* process_add_stock that assigns the amount instead of adding it
RECURSIVE add_stock_loop_assigning(_, _, _)
add_stock_loop_assigning(table, pairs, k) ==
    IF k > Len(pairs) THEN Result(table, NoError)
    ELSE LET sku == pairs[k][1]
             amount == pairs[k][2]
             v == validate_pair(sku, amount)
         IN  IF v.exc = "StockError" THEN add_stock_loop_assigning(table, pairs, k + 1)
             ELSE IF v # NoError THEN Result(table, v)
             ELSE IF sku \notin DOMAIN table
             THEN Result(table, StockError("SKU {sku} not found, cannot add stock", <<sku>>))
             ELSE add_stock_loop_assigning(store(table, sku, int(amount)), pairs, k + 1)

\* the for loop of process_add_stock from its k-th pair on
RECURSIVE add_stock_loop(_, _, _)
add_stock_loop(table, pairs, k) ==
    IF k > Len(pairs) THEN Result(table, NoError)
    ELSE LET sku == pairs[k][1]
             amount == pairs[k][2]
             v == validate_pair(sku, amount)
         IN  IF v.exc = "StockError" THEN add_stock_loop(table, pairs, k + 1)
             ELSE IF v # NoError THEN Result(table, v)
             ELSE IF sku \notin DOMAIN table
             THEN Result(table, StockError("SKU {sku} not found, cannot add stock", <<sku>>))
             ELSE add_stock_loop(store(table, sku, table[sku] + int(amount)), pairs, k + 1)

process_add_stock(table, parts) ==
    add_stock_loop(table, zip(slice2(parts, 0), slice2(parts, 1)), 1)

\* process_order without the comparison of the level with the amount
RECURSIVE order_loop_unchecked(_, _, _, _)
order_loop_unchecked(table, order_ref, pairs, k) ==
    IF k > Len(pairs) THEN Result(table, NoError)
    ELSE LET sku == pairs[k][1]
             amount == pairs[k][2]
             v == validate_pair(sku, amount)
         IN  IF v.exc = "StockError" THEN order_loop_unchecked(table, order_ref, pairs, k + 1)
             ELSE IF v # NoError THEN Result(table, v)
             ELSE IF sku \notin DOMAIN table
             THEN Result(table, StockError("SKU {sku} not found, cannot place order", <<sku>>))
             ELSE order_loop_unchecked(store(table, sku, table[sku] - int(amount)),
                                       order_ref, pairs, k + 1)

\* process_order that leaves its loop after the first pair it applies
RECURSIVE order_loop_single(_, _, _, _)
order_loop_single(table, order_ref, pairs, k) ==
    IF k > Len(pairs) THEN Result(table, NoError)
    ELSE LET sku == pairs[k][1]
             amount == pairs[k][2]
             v == validate_pair(sku, amount)
         IN  IF v.exc = "StockError" THEN order_loop_single(table, order_ref, pairs, k + 1)
             ELSE IF v # NoError THEN Result(table, v)
             ELSE IF sku \notin DOMAIN table
             THEN Result(table, StockError("SKU {sku} not found, cannot place order", <<sku>>))
             ELSE IF table[sku] < int(amount)
             THEN Result(table, StockError("Insufficient stock for order {order_ref}, SKU: {sku}",
                                           <<order_ref, sku>>))
             ELSE Result(store(table, sku, table[sku] - int(amount)), NoError)

\* the for loop of process_order from its k-th pair on
RECURSIVE order_loop(_, _, _, _)
order_loop(table, order_ref, pairs, k) ==
    IF k > Len(pairs) THEN Result(table, NoError)
    ELSE LET sku == pairs[k][1]
             amount == pairs[k][2]
             v == validate_pair(sku, amount)
         IN  IF v.exc = "StockError" THEN order_loop(table, order_ref, pairs, k + 1)
             ELSE IF v # NoError THEN Result(table, v)
             ELSE IF sku \notin DOMAIN table
             THEN Result(table, StockError("SKU {sku} not found, cannot place order", <<sku>>))
             ELSE IF table[sku] < int(amount)
             THEN Result(table, StockError("Insufficient stock for order {order_ref}, SKU: {sku}",
                                           <<order_ref, sku>>))
             ELSE order_loop(store(table, sku, table[sku] - int(amount)), order_ref, pairs, k + 1)

\* process_order that restores the table when a pair fails
process_order_atomic(table, parts) ==
    IF Len(parts) = 0 THEN Result(table, IndexError)
    ELSE LET r == order_loop(table, parts[1], zip(slice2(parts, 1), slice2(parts, 2)), 1)
         IN  IF r.exc = NoError THEN r ELSE Result(table, r.exc)

\* process_order that takes its SKUs from parts[0::2]: the order reference
\* is paired as a SKU
process_order_ref_as_sku(table, parts) ==
    IF Len(parts) = 0 THEN Result(table, IndexError)
    ELSE order_loop(table, parts[1], zip(slice2(parts, 0), slice2(parts, 1)), 1)

process_order(table, parts) ==
    IF Len(parts) = 0 THEN Result(table, IndexError)
    ELSE order_loop(table, parts[1], zip(slice2(parts, 1), slice2(parts, 2)), 1)

SET_STOCK == <<"s", "e", "t", "-", "s", "t", "o", "c", "k">>
ADD_STOCK == <<"a", "d", "d", "-", "s", "t", "o", "c", "k">>
ORDER == <<"o", "r", "d", "e", "r">>

\* process_command whose else branch raises nothing
process_command_silent(table, instr) ==
    LET parts == split(instr) IN
    IF Len(parts) = 0 THEN Result(table, IndexError)
    ELSE LET operation == parts[1]
             sku_and_amount_pairs == Tail(parts)
         IN  IF operation = SET_STOCK THEN process_set_stock(table, sku_and_amount_pairs)
             ELSE IF operation = ADD_STOCK THEN process_add_stock(table, sku_and_amount_pairs)
             ELSE IF operation = ORDER THEN process_order(table, sku_and_amount_pairs)
             ELSE Result(table, NoError)

process_command(table, instr) ==
    LET parts == split(instr) IN
    IF Len(parts) = 0 THEN Result(table, IndexError)
    ELSE LET operation == parts[1]
             sku_and_amount_pairs == Tail(parts)
         IN  IF operation = SET_STOCK THEN process_set_stock(table, sku_and_amount_pairs)
             ELSE IF operation = ADD_STOCK THEN process_add_stock(table, sku_and_amount_pairs)
             ELSE IF operation = ORDER THEN process_order(table, sku_and_amount_pairs)
             ELSE Result(table, StockError("Unknown command: {operation}", <<operation>>))

\* code-point order of the characters a stored SKU can hold
CodeOrder ==
    <<"-", "0", "1", "2", "3", "4", "5", "6", "7", "8", "9",
      "A", "B", "C", "D", "E", "F", "G", "H", "I", "J", "K", "L", "M",
      "N", "O", "P", "Q", "R", "S", "T", "U", "V", "W", "X", "Y", "Z">>

ord(c) == CHOOSE i \in 1..Len(CodeOrder) : CodeOrder[i] = c

\* a < b for two str, as sorted() compares them
RECURSIVE str_less(_, _)
str_less(a, b) ==
    IF Len(b) = 0 THEN FALSE
    ELSE IF Len(a) = 0 THEN TRUE
    ELSE IF Head(a) = Head(b) THEN str_less(Tail(a), Tail(b))
    ELSE ord(Head(a)) < ord(Head(b))

\* sorted(self.stock.items()) restricted to the keys in skus
RECURSIVE sorted_items(_, _)
sorted_items(table, skus) ==
    IF skus = {} THEN <<>>
    ELSE LET first == CHOOSE a \in skus : \A b \in skus \ {a} : str_less(a, b)
         IN  <<<<first, table[first]>>>> \o sorted_items(table, skus \ {first})

\* the lines print_stock prints, as (sku, level)
print_stock(table) == sorted_items(table, DOMAIN table)

----------------------------------------------------------------------------
(* Inputs.                                                                 *)

SKU_AB6 == <<"A", "B", "-", "6">>
SKU_CD3 == <<"C", "D", "-", "3">>
\* "A1-6": a digit among the letters
SKU_BAD == <<"A", "1", "-", "6">>
\* "ON-123": an order reference, which has the shape of a SKU
ORDER_REF == <<"O", "N", "-", "1", "2", "3">>
UNKNOWN_COMMAND ==
    <<"u", "n", "k", "n", "o", "w", "n", "-", "c", "o", "m", "m", "a", "n", "d">>

\* tokens met in the SKU position of a pair
SkuTokens == {SKU_AB6, SKU_CD3, SKU_BAD}

\* tokens met in the amount position of a pair: "1", "999", "1000" and U+00B2
AmountTokens == {<<"1">>, <<"9", "9", "9">>, <<"1", "0", "0", "0">>, <<"sup2">>}

\* argument lists of n tokens: SKU position, amount position, SKU position, ...
RECURSIVE ArgListsOfLen(_)
ArgListsOfLen(n) ==
    IF n = 0 THEN {<<>>}
    ELSE {Append(args, t) : args \in ArgListsOfLen(n - 1),
                            t \in IF n % 2 = 1 THEN SkuTokens ELSE AmountTokens}

\* the argument lists of at most MaxArgs tokens: whole pairs, and whole pairs
\* followed by one SKU token without partner
ArgLists ==
    UNION {ArgListsOfLen(n) : n \in {m \in 0..MaxArgs : m % 2 = 0}}
    \cup UNION {{Append(args, SKU_AB6) : args \in ArgListsOfLen(n)} :
                 n \in {m \in 0..(MaxArgs - 1) : m % 2 = 0}}

\* " ".join(tokens)
RECURSIVE join(_)
join(tokens) ==
    IF Len(tokens) = 0 THEN <<>>
    ELSE IF Len(tokens) = 1 THEN Head(tokens)
    ELSE Head(tokens) \o <<" ">> \o join(Tail(tokens))

\* instructions whose last token has no partner and is no SKU
TrailingInstructions ==
    {join(<<op, SKU_AB6, <<"1">>, last>>) : op \in {SET_STOCK, ADD_STOCK},
                                            last \in AmountTokens}
    \cup {join(<<ORDER, ORDER_REF, SKU_AB6, <<"1">>, last>>) : last \in AmountTokens}

\* orders whose reference is a SKU of the table
RefInstructions ==
    {join(<<ORDER, SKU_AB6>> \o args) : args \in ArgListsOfLen(2)}
    \cup {join(<<ORDER, SKU_AB6, <<"1">>, SKU_CD3, <<"1">>>>)}

Instructions ==
    {join(<<op>> \o args) : op \in {SET_STOCK, ADD_STOCK}, args \in ArgLists}
    \cup {join(<<ORDER, ORDER_REF>> \o args) : args \in ArgLists}
    \cup {join(<<op>> \o args) : op \in {UNKNOWN_COMMAND, SKU_AB6},
                                 args \in {<<>>, <<SKU_AB6, <<"1">>>>}}
    \cup {ORDER, <<>>, <<" ">>, <<" ", "\t">>,
          <<" ">> \o SET_STOCK \o <<" ", " ">> \o SKU_CD3 \o <<"\t", "1", " ">>}
    \cup TrailingInstructions
    \cup RefInstructions

\* the str of at most n characters of alphabet
RECURSIVE Strs(_, _)
Strs(alphabet, n) ==
    IF n = 0 THEN {<<>>}
    ELSE Strs(alphabet, n - 1)
         \cup {Append(s, c) : s \in Strs(alphabet, n - 1), c \in alphabet}

\* arguments of validate_sku: short str, and "ABCD-1", "A-1111" with a run too long
SkuStrings ==
    Strs({"A", "a", "1", "-", "_", "\n"}, MaxStrLen)
    \cup {<<"A", "B", "C", "D", "-", "1">>, <<"A", "-", "1", "1", "1", "1">>}

\* arguments of validate_amount: short str of digits, sign, point and U+00B2
AmountStrings == Strs({"0", "1", "9", "-", ".", "sup2"}, MaxStrLen)

\* the lines of a file: an instruction and its line terminator
FileLines == {instr \o <<"\n">> : instr \in Instructions}

----------------------------------------------------------------------------
(* State machine.  pc is "ready" between calls and "called" when a call of *)
(* process_command has ended; instruction, cmd_parts (its tokens), before *)
(* (the table when the call began) and outcome (what the call raised)      *)
(* describe that call.  arg is the argument of a direct call of            *)
(* validate_sku or validate_amount.                                        *)

Init ==
    /\ stock = <<>>
    /\ instruction = <<>>
    /\ cmd_parts = <<>>
    /\ before = <<>>
    /\ outcome = NoError
    /\ calls = 0
    /\ pc = "ready"
    /\ line_number = 0
    /\ report = <<>>
    /\ arg = <<>>

\* one call stock_manager.process_command(instr), as the tests make it
Call ==
    /\ pc = "ready"
    /\ calls < MaxCalls
    /\ \E instr \in Instructions :
         LET r == process_command(stock, instr) IN
         /\ stock' = r.stock
         /\ instruction' = instr
         /\ cmd_parts' = split(instr)
         /\ before' = stock
         /\ outcome' = r.exc
    /\ calls' = calls + 1
    /\ pc' = "called"
    /\ UNCHANGED <<line_number, report, arg>>

\* the caller goes on: the call's argument and exception are dropped
Return ==
    /\ pc = "called"
    /\ instruction' = <<>>
    /\ cmd_parts' = <<>>
    /\ before' = <<>>
    /\ outcome' = NoError
    /\ pc' = "ready"
    /\ UNCHANGED <<stock, calls, line_number, report, arg>>

Next == Call \/ Return

Spec == Init /\ [][Next]_vars

\* the body of the for loop of process_stock_file on one line; an exception
\* that is no StockError leaves the loop and the function
ReadLine ==
    /\ pc = "ready"
    /\ line_number < MaxLines
    /\ \E raw \in FileLines :
         LET line == strip(raw)
             r == process_command(stock, line)
         IN
         /\ stock' = r.stock
         /\ instruction' = line
         /\ cmd_parts' = split(line)
         /\ before' = stock
         /\ outcome' = r.exc
         /\ pc' = IF r.exc.exc \in {"none", "StockError"} THEN "called" ELSE "crashed"
    /\ line_number' = line_number + 1
    /\ UNCHANGED <<calls, report, arg>>

\* the loop goes to its next iteration: line and e are rebound
NextLine ==
    /\ pc = "called"
    /\ instruction' = <<>>
    /\ cmd_parts' = <<>>
    /\ before' = <<>>
    /\ outcome' = NoError
    /\ pc' = "ready"
    /\ UNCHANGED <<stock, calls, line_number, report, arg>>

\* the end of the file: the loop ends and the final levels are printed
EndOfFile ==
    /\ pc = "ready"
    /\ report' = print_stock(stock)
    /\ pc' = "done"
    /\ UNCHANGED <<stock, instruction, cmd_parts, before, outcome, calls, line_number, arg>>

FileNext == ReadLine \/ NextLine \/ EndOfFile

FileSpec == Init /\ [][FileNext]_vars

\* one call stock_manager.validate_sku(sku), as the tests make it
ValidateSku ==
    /\ pc = "ready"
    /\ \E sku \in SkuStrings :
         /\ arg' = sku
         /\ outcome' = validate_sku(sku)
    /\ before' = stock
    /\ pc' = "validated_sku"
    /\ UNCHANGED <<stock, instruction, cmd_parts, calls, line_number, report>>

\* one call stock_manager.validate_amount(amount), as the tests make it
ValidateAmount ==
    /\ pc = "ready"
    /\ \E amount \in AmountStrings :
         /\ arg' = amount
         /\ outcome' = validate_amount(amount)
    /\ before' = stock
    /\ pc' = "validated_amount"
    /\ UNCHANGED <<stock, instruction, cmd_parts, calls, line_number, report>>

\* the caller goes on: the call's argument and exception are dropped
ValidateReturn ==
    /\ pc \in {"validated_sku", "validated_amount"}
    /\ arg' = <<>>
    /\ before' = <<>>
    /\ outcome' = NoError
    /\ pc' = "ready"
    /\ UNCHANGED <<stock, instruction, cmd_parts, calls, line_number, report>>

ValidateNext == ValidateSku \/ ValidateAmount \/ ValidateReturn

ValidateSpec == Init /\ [][ValidateNext]_vars

----------------------------------------------------------------------------
(* Vocabulary of the properties: the call that has just ended, read off    *)
(* instruction, before, stock and outcome.                                 *)

Called == pc = "called"

\* the tokens of the instruction of the call
CallParts == cmd_parts

CallOp == IF Len(CallParts) > 0 THEN CallParts[1] ELSE <<>>

IsSetStock == Called /\ CallOp = SET_STOCK
IsAddStock == Called /\ CallOp = ADD_STOCK
\* an order instruction that carries its order reference
IsOrder == Called /\ CallOp = ORDER /\ Len(CallParts) >= 2

\* tokens before the first pair: the operation, and for order the reference
PairOffset == IF CallOp = ORDER THEN 2 ELSE 1

\* the pairs of the instruction, by token position
NPairs ==
    IF Len(CallParts) < PairOffset THEN 0 ELSE (Len(CallParts) - PairOffset) \div 2

PairSku(k) == CallParts[PairOffset + 2 * k - 1]
PairAmount(k) == CallParts[PairOffset + 2 * k]

\* both tokens of pair k pass validation
WellFormed(k) ==
    validate_sku(PairSku(k)) = NoError /\ validate_amount(PairAmount(k)) = NoError

\* pair k has a token that validation rejects
Malformed(k) ==
    validate_sku(PairSku(k)) # NoError \/ validate_amount(PairAmount(k)) # NoError

\* pair k is skipped by the handler: its validation raises a StockError
Skipped(k) ==
    \/ validate_sku(PairSku(k)) # NoError
    \/ validate_amount(PairAmount(k)).exc = "StockError"

\* the sum of the amounts of the well-formed pairs for sku among the first n pairs
RECURSIVE AmountSum(_, _)
AmountSum(sku, n) ==
    IF n = 0 THEN 0
    ELSE AmountSum(sku, n - 1)
         + (IF WellFormed(n) /\ PairSku(n) = sku THEN int(PairAmount(n)) ELSE 0)

\* the level of sku once the well-formed pairs before pair k are applied
\* (add-stock adds, order subtracts)
LevelAt(sku, k) ==
    IF CallOp = ORDER THEN before[sku] - AmountSum(sku, k - 1)
    ELSE before[sku] + AmountSum(sku, k - 1)

\* pair k is well-formed and makes the handler raise: its SKU is absent, or
\* (order) its amount exceeds the level
NotFoundAt(k) == WellFormed(k) /\ PairSku(k) \notin DOMAIN before

InsufficientAt(k) ==
    /\ CallOp = ORDER
    /\ WellFormed(k)
    /\ PairSku(k) \in DOMAIN before
    /\ int(PairAmount(k)) > LevelAt(PairSku(k), k)

\* pair k is well-formed and is applied when the loop gets to it
AppliesAt(k) == WellFormed(k) /\ ~ NotFoundAt(k) /\ ~ InsufficientAt(k)

\* the loop of an add-stock or order gets to pair k: every pair before it
\* is skipped or applied
Reached(k) == \A j \in 1..(k - 1) : Skipped(j) \/ AppliesAt(j)

\* the table once exactly the pairs before pair k are applied
TableAt(k) == [sku \in DOMAIN before |-> LevelAt(sku, k)]

SkuNotFound(sku) ==
    IF CallOp = ORDER
    THEN StockError("SKU {sku} not found, cannot place order", <<sku>>)
    ELSE StockError("SKU {sku} not found, cannot add stock", <<sku>>)

InsufficientStock(order_ref, sku) ==
    StockError("Insufficient stock for order {order_ref}, SKU: {sku}", <<order_ref, sku>>)

UnknownOperation(operation) == StockError("Unknown command: {operation}", <<operation>>)

\* no token of the instruction holds a digit character that int() refuses
PlainTokens ==
    \A i \in 1..Len(instruction) : instruction[i] \notin NonDecimalDigits

----------------------------------------------------------------------------
(* C1 as stated: after any sequence of process_command calls every level   *)
(* in the table is an integer in [0, 999].                                 *)
C1_LevelsWithinRange ==
    \A sku \in DOMAIN stock : stock[sku] \in 0..MaxAmount

(* C1, amended: every level is an integer >= 0; a level above 999 can      *)
(* only come from add-stock: after a set-stock or order call a level is    *)
(* within [0, 999] or no higher than it was before the call.               *)
C1_LevelsNonNegativeAndOnlyAddExceeds ==
    /\ \A sku \in DOMAIN stock : stock[sku] \in Nat
    /\ Called /\ CallOp # ADD_STOCK =>
         \A sku \in DOMAIN stock :
            \/ stock[sku] <= MaxAmount
            \/ sku \in DOMAIN before /\ stock[sku] <= before[sku]

\* an add-stock call has just pushed a level from within [0, 999] above 999
C1_Witness ==
    /\ IsAddStock
    /\ \E sku \in DOMAIN stock : before[sku] <= MaxAmount /\ stock[sku] > MaxAmount

(* C2: no level is ever negative; when an order gets to a well-formed pair *)
(* whose SKU is present and whose amount exceeds the level the SKU has at  *)
(* that moment, the call raises the insufficient-stock StockError naming   *)
(* the order reference and the SKU, and the SKU keeps that level.          *)
C2_OrderNeverNegative ==
    /\ \A sku \in DOMAIN stock : stock[sku] >= 0
    /\ IsOrder =>
         \A k \in 1..NPairs :
            Reached(k) /\ InsufficientAt(k) =>
               /\ outcome = InsufficientStock(CallParts[2], PairSku(k))
               /\ stock[PairSku(k)] = LevelAt(PairSku(k), k)

\* an order for more than the level held has just been refused
C2_Witness ==
    /\ IsOrder
    /\ \E k \in 1..NPairs :
          Reached(k) /\ InsufficientAt(k) /\ LevelAt(PairSku(k), k) > 0

(* C3 as stated: driven by process_stock_file, no line ends the run         *)
(* abnormally: whatever process_command raises is caught by the loop, so   *)
(* the run never leaves the loop through an exception.                     *)
C3_NoLineEndsTheRun == pc # "crashed"

(* C4 as stated: process_command on an empty or whitespace-only            *)
(* instruction raises the unknown-command StockError with an empty         *)
(* operation name and leaves the table unchanged.                          *)
C4_EmptyIsUnknownOperation ==
    Called /\ CallParts = <<>> =>
       outcome = UnknownOperation(<<>>) /\ stock = before

\* the amount of pair k is a decimal number above 999
AmountTooLarge(k) ==
    /\ isdigit(PairAmount(k))
    /\ int_parses(PairAmount(k))
    /\ int(PairAmount(k)) > MaxAmount

(* C5 as stated: a set-stock whose pair carries an amount outside [0, 999] *)
(* makes process_command raise a StockError, and that pair does not add    *)
(* its SKU to the table.                                                   *)
C5_SetStockOutOfRangeRaises ==
    IsSetStock =>
       \A k \in 1..NPairs :
          validate_sku(PairSku(k)) = NoError /\ AmountTooLarge(k) =>
             /\ outcome.exc = "StockError"
             /\ (/\ PairSku(k) \notin DOMAIN before
                 /\ \A j \in 1..NPairs : WellFormed(j) => PairSku(j) # PairSku(k))
                => PairSku(k) \notin DOMAIN stock

\* the argument tokens of the instruction without its malformed pairs
RECURSIVE KeptPairs(_)
KeptPairs(n) ==
    IF n = 0 THEN <<>>
    ELSE KeptPairs(n - 1)
         \o (IF Malformed(n) THEN <<>> ELSE <<PairSku(n), PairAmount(n)>>)

\* the instruction of the call with its malformed pairs removed
WithoutMalformed ==
    join(SubSeq(CallParts, 1, PairOffset)
         \o KeptPairs(NPairs)
         \o SubSeq(CallParts, PairOffset + 2 * NPairs + 1, Len(CallParts)))

(* C6 as stated: in a set-stock, add-stock or order, a malformed pair is   *)
(* skipped: the table and the outcome of the call are those of the same    *)
(* instruction with its malformed pairs removed.                           *)
C6_MalformedPairsSkipped ==
    (IsSetStock \/ IsAddStock \/ IsOrder) /\ (\E k \in 1..NPairs : Malformed(k)) =>
       LET r == process_command(before, WithoutMalformed)
       IN  stock = r.stock /\ outcome = r.exc

\* C6 does hold of the instructions whose tokens int() never refuses
C6_HoldsOnPlainTokens == PlainTokens => C6_MalformedPairsSkipped

(* C7: an instruction whose first token is none of set-stock, add-stock,   *)
(* order makes process_command raise the unknown-command StockError whose  *)
(* message holds that token, and the table is what it was before the call. *)
C7_UnknownOperationNoMutation ==
    Called /\ Len(CallParts) > 0 /\ CallOp \notin {SET_STOCK, ADD_STOCK, ORDER} =>
       outcome = UnknownOperation(CallOp) /\ stock = before

\* an unknown operation with a valid pair has just been refused on a stocked table
C7_Witness ==
    /\ Called
    /\ Len(CallParts) = 3
    /\ CallOp \notin {SET_STOCK, ADD_STOCK, ORDER}
    /\ before # <<>>
    /\ outcome.exc = "StockError"

\* the instruction has a pair whose SKU token is well-formed and absent from the table
NamesUnseededSku(k) ==
    validate_sku(PairSku(k)) = NoError /\ PairSku(k) \notin DOMAIN before

C9_OrderFailureKeepsEarlierDecrements ==
    IsOrder =>
       \A k \in 1..NPairs :
          Reached(k) /\ (NotFoundAt(k) \/ InsufficientAt(k)) =>
             /\ stock = TableAt(k)
             /\ outcome = IF NotFoundAt(k) THEN SkuNotFound(PairSku(k))
                          ELSE InsufficientStock(CallParts[2], PairSku(k))

\* an order has just failed at its second pair after its first pair took stock
C9_Witness ==
    /\ IsOrder
    /\ NPairs = 2
    /\ AppliesAt(1)
    /\ NotFoundAt(2) \/ InsufficientAt(2)
    /\ stock # before
    /\ outcome.exc = "StockError"

LastForSku(k) ==
    /\ WellFormed(k)
    /\ \A j \in (k + 1)..NPairs : ~ (WellFormed(j) /\ PairSku(j) = PairSku(k))

(* C11 as stated: after a set-stock instruction every SKU of a well-formed *)
(* pair is in the table with the amount of the last well-formed pair for   *)
(* that SKU, whether it was absent or held any value before, and the       *)
(* instruction does not fail.                                              *)
C11_SetStockLastPairWins ==
    IsSetStock =>
       /\ \A k \in 1..NPairs :
             LastForSku(k) =>
                /\ PairSku(k) \in DOMAIN stock
                /\ stock[PairSku(k)] = int(PairAmount(k))
       /\ outcome.exc # "StockError"

\* C11 does hold of the instructions whose tokens int() never refuses
C11_HoldsOnPlainTokens == PlainTokens => C11_SetStockLastPairWins

(* C12: an order in which every pair is well-formed, names a present SKU   *)
(* and asks for no more than the level held when the pair is processed     *)
(* raises nothing, and afterwards the level of each SKU is its level       *)
(* before minus the amounts ordered for it: all pairs are applied.         *)
C12_OrderAppliesAllPairs ==
    IsOrder /\ (\A k \in 1..NPairs : AppliesAt(k)) =>
       outcome = NoError /\ stock = TableAt(NPairs + 1)

\* an order of two pairs has just been applied in full
C12_Witness ==
    /\ IsOrder
    /\ NPairs = 2
    /\ \A k \in 1..NPairs : AppliesAt(k) /\ int(PairAmount(k)) > 0
    /\ outcome = NoError
    /\ stock # before

\* the call was a successful order of one pair, "order REF sku n"
OneOrderDone ==
    IsOrder /\ Len(CallParts) = 4 /\ WellFormed(1) /\ outcome = NoError

(* C13: round trip.  After a successful "order REF sku n" on a SKU of      *)
(* level v (n <= v) the level is v - n, and "add-stock sku n" on that      *)
(* table raises nothing and gives back the table held before the order:    *)
(* the level of sku is v again and every other entry is unchanged.         *)
C13_OrderThenAddRoundTrip ==
    OneOrderDone =>
       /\ stock[PairSku(1)] = before[PairSku(1)] - int(PairAmount(1))
       /\ process_command(stock, join(<<ADD_STOCK, PairSku(1), PairAmount(1)>>))
             = Result(before, NoError)

\* a successful order has just taken stock from one of two stocked SKUs
C13_Witness ==
    /\ OneOrderDone
    /\ int(PairAmount(1)) > 0
    /\ stock[PairSku(1)] > 0
    /\ Cardinality(DOMAIN before) = 2

(* C14: set-stock is idempotent: from any reachable table, the same        *)
(* set-stock instruction applied a second time leaves the table that its   *)
(* first application left.                                                 *)
C14_SetStockIdempotent ==
    IsSetStock => process_command(stock, instruction).stock = stock

\* a set-stock has just changed a level that was already in the table
C14_Witness ==
    /\ IsSetStock
    /\ \E k \in 1..NPairs :
          /\ WellFormed(k)
          /\ PairSku(k) \in DOMAIN before
          /\ stock[PairSku(k)] # before[PairSku(k)]

\* s is, as a whole, 1 to 3 letters A-Z, one hyphen, 1 to 3 digits 0-9
IsWholeSku(s) ==
    \E i \in 1..3, j \in 1..3 :
        /\ Len(s) = i + 1 + j
        /\ \A k \in 1..i : s[k] \in UpperChars
        /\ s[i + 1] = "-"
        /\ \A k \in 1..j : s[i + 1 + k] \in AsciiDigits

(* C15 as stated: validate_sku accepts a str if and only if the whole str  *)
(* is 1 to 3 uppercase letters, one hyphen, 1 to 3 digits; every other str *)
(* is rejected with the invalid-SKU StockError; the table is not changed.  *)
C15_ValidateSkuFullMatch ==
    pc = "validated_sku" =>
       /\ outcome = IF IsWholeSku(arg) THEN NoError
                    ELSE StockError("Invalid SKU format: {sku}", <<arg>>)
       /\ stock = before

\* C15 does hold of the str that do not end with a newline
C15_HoldsWithoutFinalNewline ==
    (Len(arg) > 0 /\ arg[Len(arg)] = "\n") \/ C15_ValidateSkuFullMatch

\* s is a non-empty run of the digits 0-9 whose value is within [0, 999]
IsAmountInRange(s) ==
    /\ Len(s) > 0
    /\ \A k \in 1..Len(s) : s[k] \in AsciiDigits
    /\ int(s) \in 0..999

(* C16 as stated: validate_amount accepts a str if and only if it is a     *)
(* non-empty run of decimal digits whose value is within [0, 999]; every   *)
(* other str is rejected with the invalid-amount StockError.               *)
C16_ValidateAmountDigitsInRange ==
    pc = "validated_amount" =>
       outcome = IF IsAmountInRange(arg) THEN NoError
                 ELSE StockError("Invalid amount format: {amount}", <<arg>>)

\* C16 does hold of the str made of the digits 0-9, signs and points
C16_HoldsOnPlainStrings ==
    (\E k \in 1..Len(arg) : arg[k] \in NonDecimalDigits) \/ C16_ValidateAmountDigitsInRange

\* the instruction of the call without its last token
WithoutLastToken == join(SubSeq(CallParts, 1, Len(CallParts) - 1))

\* the call ended as the same instruction without its last token ends
SameAsWithoutLastToken ==
    process_command(before, WithoutLastToken) = Result(stock, outcome)

(* C17 as stated: a set-stock or add-stock with an odd number of argument  *)
(* tokens, and an order with an even number of tokens after the order      *)
(* reference (here at least two), gives the table and the outcome of the   *)
(* same instruction with its last token removed.                           *)
C17_TrailingTokenIgnored ==
    /\ (IsSetStock \/ IsAddStock) /\ (Len(CallParts) - 1) % 2 = 1
          => SameAsWithoutLastToken
    /\ IsOrder /\ Len(CallParts) >= 4 /\ (Len(CallParts) - 2) % 2 = 0
          => SameAsWithoutLastToken

(* C17, amended: a set-stock or add-stock with an odd number of argument   *)
(* tokens, and an order with an odd number of tokens after the order       *)
(* reference, gives the table and the outcome of the same instruction with *)
(* its last token removed, whatever that token is.                         *)
C17_UnpairedTokenIgnored ==
    /\ (IsSetStock \/ IsAddStock) /\ (Len(CallParts) - 1) % 2 = 1
          => SameAsWithoutLastToken
    /\ IsOrder /\ (Len(CallParts) - 2) % 2 = 1
          => SameAsWithoutLastToken

\* an instruction has just changed the table and ends with a token without
\* partner that validate_amount would not let pass
C17_Witness ==
    /\ IsSetStock \/ IsAddStock \/ IsOrder
    /\ (Len(CallParts) - PairOffset) % 2 = 1
    /\ validate_amount(CallParts[Len(CallParts)]).exc = "ValueError"
    /\ stock # before

(* C18 as stated: the key set of the table only grows and only set-stock   *)
(* grows it: a call never removes a key, and every add-stock, order,       *)
(* unknown or failed instruction leaves the set of keys exactly as it was. *)
C18_OnlySetStockGrowsKeys ==
    Called =>
       /\ DOMAIN before \subseteq DOMAIN stock
       /\ CallOp # SET_STOCK \/ outcome # NoError => DOMAIN stock = DOMAIN before

\* C18 does hold of the instructions whose tokens int() never refuses
C18_HoldsOnPlainTokens == PlainTokens => C18_OnlySetStockGrowsKeys

(* C19: in every reachable state every key of the table is a well-formed   *)
(* SKU (1-3 uppercase letters, a hyphen, 1-3 digits): no operation token,  *)
(* order reference, amount token or malformed SKU token becomes a key.     *)
C19_KeysAreWellFormedSkus == \A sku \in DOMAIN stock : IsWholeSku(sku)

\* a set-stock has stored a pair and passed over a malformed SKU token that
\* came with a valid amount
C19_Witness ==
    /\ IsSetStock
    /\ outcome = NoError
    /\ DOMAIN stock # DOMAIN before
    /\ \E k \in 1..NPairs :
          /\ ~ IsWholeSku(PairSku(k))
          /\ validate_amount(PairAmount(k)) = NoError

\* sku is the SKU token of a well-formed pair of the instruction of the call
NamedByWellFormedPair(sku) ==
    /\ IsSetStock \/ IsAddStock \/ IsOrder
    /\ \E k \in 1..NPairs : WellFormed(k) /\ PairSku(k) = sku

(* C20: an instruction changes only the entries of the SKUs that are the   *)
(* SKU token of one of its own well-formed pairs: for every call, failed   *)
(* or not, every other SKU (the order reference included, when it has the  *)
(* shape of a SKU) is in the table after the call iff it was before, with  *)
(* the same level.                                                         *)
C20_OnlyNamedSkusChange ==
    Called =>
       \A sku \in DOMAIN before \cup DOMAIN stock :
          ~ NamedByWellFormedPair(sku) =>
             /\ sku \in DOMAIN before
             /\ sku \in DOMAIN stock
             /\ stock[sku] = before[sku]

\* an order whose reference is a stocked SKU has taken from another SKU and
\* left the level of its reference alone
C20_Witness ==
    /\ IsOrder
    /\ CallParts[2] \in DOMAIN before
    /\ ~ NamedByWellFormedPair(CallParts[2])
    /\ stock # before
    /\ stock[CallParts[2]] = before[CallParts[2]]

====
